---- MODULE Spec2Model ----
(***************************************************************************)
(* Heatwave event detection and standardisation.                           *)
(*                                                                         *)
(* A daily series is a sequence of rows [timeset, v]: timeset is a         *)
(* calendar day counted in days since 1970-01-01, v a temperature in       *)
(* tenths of a degree Celsius, or NaN.  The three detectors               *)
(* (detect_inmet_events, detect_ouzeau_events, detect_wetbulb_p90_events), *)
(* standardize_events, attach_event_id, compute_event_metrics,             *)
(* expand_event_metrics_to_timeseries and flags_from_events are operators  *)
(* computed as the code computes them; one action applies each of them to  *)
(* the state.  arg holds the tables passed to the last call as the caller  *)
(* sees them after it, work the number of per-event computations the last  *)
(* compute_event_metrics performed.                                        *)
(***************************************************************************)
EXTENDS Integers, Sequences, FiniteSets, TLC

VARIABLES pc, daily, method, params, events, flags, cands,
          inputs, arg, proj, work

vars == <<pc, daily, method, params, events, flags, cands, inputs, arg, proj, work>>

----------------------------------------------------------------------------
(* Bounds *)

\* number of calendar days the enumerated daily series span
MaxDays == 4
\* largest n_consecutive passed to detect_ouzeau_events / detect_wetbulb_p90_events
MaxN == 3
\* largest number of rows of an events table handed directly to attach_event_id
MaxEvents == 3

----------------------------------------------------------------------------
(* Floating point: the missing value and comparisons that are False on it *)

NaN == -9999

Lt(a, b) == a # NaN /\ b # NaN /\ a < b
Gt(a, b) == a # NaN /\ b # NaN /\ a > b
Ge(a, b) == a # NaN /\ b # NaN /\ a >= b

\* Python's builtin max(a, b): b only when b > a
PyMax(a, b) == IF Gt(b, a) THEN b ELSE a

\* float addition; NaN propagates
FAdd(a, b) == IF a = NaN \/ b = NaN THEN NaN ELSE a + b

----------------------------------------------------------------------------
(* Calendar: timestamps of a daily series are days since 1970-01-01 *)

DaysFromCivil(y, m, d) ==
  LET y2  == IF m <= 2 THEN y - 1 ELSE y
      era == y2 \div 400
      yoe == y2 - era * 400
      mp  == IF m > 2 THEN m - 3 ELSE m + 9
      doy == (153 * mp + 2) \div 5 + d - 1
      doe == yoe * 365 + yoe \div 4 - yoe \div 100 + doy
  IN era * 146097 + doe - 719468

CivilFromDays(z) ==
  LET z2  == z + 719468
      era == z2 \div 146097
      doe == z2 - era * 146097
      yoe == (doe - doe \div 1460 + doe \div 36524 - doe \div 146096) \div 365
      doy == doe - (365 * yoe + yoe \div 4 - yoe \div 100)
      mp  == (5 * doy + 2) \div 153
      d   == doy - (153 * mp + 2) \div 5 + 1
      m   == IF mp < 10 THEN mp + 3 ELSE mp - 9
      y   == yoe + era * 400
  IN [year |-> IF m <= 2 THEN y + 1 ELSE y, month |-> m, day |-> d]

\* Series.dt.month, Series.dt.year
MonthOf(t) == CivilFromDays(t).month
YearOf(t) == CivilFromDays(t).year

\* (end.date() - start.date()).days + 1
SpanDays(start, end) == (end - start) + 1

----------------------------------------------------------------------------
(* Small helpers over sequences and sets *)

SetMin(S) == CHOOSE x \in S : \A y \in S : x <= y
SetMax(S) == CHOOSE x \in S : \A y \in S : x >= y

RECURSIVE SelectRows(_, _)
\* the rows d[k], k in idx, in ascending k
SelectRows(d, idx) ==
  IF idx = {} THEN <<>>
  ELSE <<d[SetMin(idx)]>> \o SelectRows(d, idx \ {SetMin(idx)})

----------------------------------------------------------------------------
(* Inputs *)

SiteId == "SP"

\* first calendar day of the enumerated series: the series cross a month and
\* a year boundary
FirstDay == DaysFromCivil(2020, 12, 30)

\* tenths of a degree: below sint, between sint and sdeb, equal to sdeb,
\* between sdeb and spic, above spic; and a day without data
Values == {NaN, 150, 170, 200, 220, 250}

\* every series over MaxDays calendar days, any of the days possibly absent,
\* rows in date order, one row per day present
EnumSeries ==
  UNION { { SelectRows([k \in 1..MaxDays |->
                          [timeset |-> FirstDay + k - 1,
                           v |-> IF k \in P THEN f[k] ELSE NaN]], P)
            : f \in [P -> Values] }
          : P \in SUBSET (1..MaxDays) }

\* the nine consecutive days of the documented scenario
ScenarioValues == <<180, 190, 250, 260, 270, 170, 160, 150, 240>>
ScenarioSeries ==
  [k \in 1..9 |-> [timeset |-> DaysFromCivil(2021, 1, 1) + k - 1, v |-> ScenarioValues[k]]]
ScenarioThresholds == [sdeb |-> 200, sint |-> 165, spic |-> 245]

\* thresholds dicts for detect_ouzeau_events: the Ouzeau ordering
\* sint < sdeb < spic (climate_baselines), and a set with sdeb < sint
OuzeauThresholdSets ==
  { ScenarioThresholds, [sdeb |-> 165, sint |-> 200, spic |-> 245] }

\* normals_m tables for detect_inmet_events: month -> normal_tmax_c;
\* the second has no row for January
NormalsSets ==
  { [m \in {12, 1} |-> IF m = 12 THEN 150 ELSE 170], [m \in {12} |-> 150] }
Delta == 50

\* tw_p90
WetbulbThresholds == {200}

\* six consecutive days with a dip of three days between sdeb and sint
DipValues == <<250, 170, 170, 170, 250, 250>>
DipSeries ==
  [k \in 1..6 |-> [timeset |-> FirstDay + k - 1, v |-> DipValues[k]]]

\* a dip of one day, a day above sdeb again, then two days below sdeb
BriefDipValues == <<250, 170, 250, 170, 170>>
BriefDipSeries ==
  [k \in 1..5 |-> [timeset |-> FirstDay + k - 1, v |-> BriefDipValues[k]]]

LongSeries == {ScenarioSeries, DipSeries, BriefDipSeries}

NoParams == [kind |-> "none"]

\* no call was made yet, no inputs of the metrics engine were given
NoArg == [none |-> <<>>]
NoInputs == [kind |-> "none"]

----------------------------------------------------------------------------
(* Copies *)

AfterCall_Alias(passed, working) == working

\* the table the caller passed, as it is after the call: every operation
\* works on a copy (df.copy(), or a new frame from a selection), so what it
\* adds to its working frame does not reach the table passed
AfterCall(passed, working) == passed

----------------------------------------------------------------------------
(* detect_ouzeau_events *)

\* d["above_sdeb"]
AboveSdeb(v, thr) == Gt(v, thr.sdeb)

BelowSint_Sdeb(v, thr) == Lt(v, thr.sdeb)

\* d["below_sint"]
BelowSint(v, thr) == Lt(v, thr.sint)

\* variant: the counter is never reset
NextConsec_NoReset(consec, v, thr) == IF Lt(v, thr.sdeb) THEN consec + 1 ELSE consec

\* the consecutive-days counter after a day that is no hard stop
NextConsec(consec, v, thr) == IF Lt(v, thr.sdeb) THEN consec + 1 ELSE 0

CounterReached_Strict(consec, n) == consec > n

\* the test that ends a candidate through the counter
CounterReached(consec, n) == consec >= n

OuzeauQualifies_Sdeb(max_t, thr) == Ge(max_t, thr.sdeb)

\* the qualification of a candidate
OuzeauQualifies(max_t, thr) == Ge(max_t, thr.spic)

OuzeauResume_Next(i, j) == i + 1

\* where the outer scan resumes after a candidate opened at i and scanned to j
OuzeauResume(i, j) == j + 1

RECURSIVE OuzeauInner(_, _, _, _, _, _)
\* the inner loop, from position j (1-based) with running peak max_t and
\* counter consec; yields the final j, the peak and whether it broke out
OuzeauInner(d, thr, n, j, max_t, consec) ==
  IF ~(j < Len(d)) THEN [j |-> j, max_t |-> max_t, ended |-> FALSE]
  ELSE LET j2 == j + 1
           v  == d[j2].v
           m2 == PyMax(max_t, v)
           c2 == NextConsec(consec, v, thr)
       IN IF BelowSint(v, thr)
            THEN [j |-> j2, max_t |-> m2, ended |-> TRUE]
          ELSE IF Lt(v, thr.sdeb) /\ CounterReached(c2, n)
            THEN [j |-> j2, max_t |-> m2, ended |-> TRUE]
          ELSE OuzeauInner(d, thr, n, j2, m2, c2)

RECURSIVE OuzeauScan(_, _, _, _, _, _)
\* the outer loop from position i; ev is the list of events so far, cs the
\* list of candidates so far (qualified or not), kept to state properties
\* of discarded candidates
OuzeauScan(d, thr, n, i, ev, cs) ==
  IF ~(i <= Len(d)) THEN [events |-> ev, cands |-> cs]
  ELSE IF AboveSdeb(d[i].v, thr)
    THEN LET r        == OuzeauInner(d, thr, n, i, d[i].v, 0)
             start    == d[i].timeset
             end      == IF r.ended THEN d[r.j].timeset ELSE d[Len(d)].timeset
             duration == SpanDays(start, end)
             row      == [start |-> start, end |-> end, duration_d |-> duration,
                          peak_c |-> r.max_t]
             ev2      == IF OuzeauQualifies(r.max_t, thr) THEN Append(ev, row) ELSE ev
             c        == [s |-> i, j |-> r.j, end |-> end, ended |-> r.ended,
                          max_t |-> r.max_t]
         IN OuzeauScan(d, thr, n, OuzeauResume(i, r.j), ev2, Append(cs, c))
    ELSE OuzeauScan(d, thr, n, i + 1, ev, cs)

\* ev["method"], ev["site_id"] on the rows of a detector's events list
Tag(ev, m, site) ==
  [k \in 1..Len(ev) |->
     [start |-> ev[k].start, end |-> ev[k].end, duration_d |-> ev[k].duration_d,
      peak_c |-> ev[k].peak_c, method |-> m, site_id |-> site]]

InMask_Open(t, row) == t > row.start /\ t <= row.end

\* the mask (d["timeset"] >= row["start"]) & (d["timeset"] <= row["end"])
InMask(t, row) == t >= row.start /\ t <= row.end

\* the flags table: one row per row of d, True where some event's mask holds
FlagsFromMask(d, ev) ==
  [k \in 1..Len(d) |->
     [timeset |-> d[k].timeset,
      flag |-> \E e \in 1..Len(ev) : InMask(d[k].timeset, ev[e])]]

\* the working frame d with its added columns
OuzeauFrame(d, thr) ==
  [k \in 1..Len(d) |->
     [timeset |-> d[k].timeset, v |-> d[k].v,
      above_sdeb |-> AboveSdeb(d[k].v, thr), below_sint |-> BelowSint(d[k].v, thr)]]

detect_ouzeau_events(d, thr, site, n) ==
  LET r  == OuzeauScan(d, thr, n, 1, <<>>, <<>>)
      ev == Tag(r.events, "Ouzeau", site)
  IN [events |-> ev, flags |-> FlagsFromMask(d, ev), cands |-> r.cands,
      passed |-> AfterCall(d, OuzeauFrame(d, thr))]

----------------------------------------------------------------------------
(* detect_wetbulb_p90_events *)

\* d["above_thr"]
AboveThr(v, tw_p90) == Ge(v, tw_p90)

\* the minimum-duration rule
WetbulbQualifies(duration, n) == duration >= n

RECURSIVE WetbulbInner(_, _, _, _)
\* the inner loop: extends j while the next row is above the threshold
WetbulbInner(d, tw_p90, j, max_val) ==
  IF j < Len(d) /\ AboveThr(d[j + 1].v, tw_p90)
    THEN WetbulbInner(d, tw_p90, j + 1, PyMax(max_val, d[j + 1].v))
    ELSE [j |-> j, max_val |-> max_val]

RECURSIVE WetbulbScan(_, _, _, _, _, _)
\* the outer loop from position i; cs lists every run, qualified or not
WetbulbScan(d, tw_p90, n, i, ev, cs) ==
  IF ~(i <= Len(d)) THEN [events |-> ev, cands |-> cs]
  ELSE IF AboveThr(d[i].v, tw_p90)
    THEN LET r        == WetbulbInner(d, tw_p90, i, d[i].v)
             start    == d[i].timeset
             end      == d[r.j].timeset
             duration == SpanDays(start, end)
             row      == [start |-> start, end |-> end, duration_d |-> duration,
                          peak_c |-> r.max_val]
             ev2      == IF WetbulbQualifies(duration, n) THEN Append(ev, row) ELSE ev
             c        == [s |-> i, j |-> r.j, end |-> end, ended |-> TRUE,
                          max_t |-> r.max_val]
         IN WetbulbScan(d, tw_p90, n, r.j + 1, ev2, Append(cs, c))
    ELSE WetbulbScan(d, tw_p90, n, i + 1, ev, cs)

\* the working frame d with its added column
WetbulbFrame(d, tw_p90) ==
  [k \in 1..Len(d) |->
     [timeset |-> d[k].timeset, v |-> d[k].v, above_thr |-> AboveThr(d[k].v, tw_p90)]]

detect_wetbulb_p90_events(d, tw_p90, site, n) ==
  LET r  == WetbulbScan(d, tw_p90, n, 1, <<>>, <<>>)
      ev == Tag(r.events, "TW_P90", site)
  IN [events |-> ev, flags |-> FlagsFromMask(d, ev), cands |-> r.cands,
      passed |-> AfterCall(d, WetbulbFrame(d, tw_p90))]

----------------------------------------------------------------------------
(* detect_inmet_events *)

\* level_from_duration
level_from_duration(duration_days) ==
  IF duration_days >= 5 THEN "Red"
  ELSE IF duration_days >= 3 THEN "Orange"
  ELSE IF duration_days >= 2 THEN "Yellow"
  ELSE ""

\* df["thr_c"]: the left merge on month gives NaN where normals_m has no row
ThrC(t, normals_m, delta) ==
  IF MonthOf(t) \in DOMAIN normals_m THEN FAdd(normals_m[MonthOf(t)], delta) ELSE NaN

\* df["hit"]
Hit(row, normals_m, delta) == Ge(row.v, ThrC(row.timeset, normals_m, delta))

RECURSIVE Grp(_, _)
\* (df["hit"] != df["hit"].shift()).cumsum() at row k: the first row differs
\* from the shifted-in missing value
Grp(hit, k) ==
  IF k = 1 THEN 1
  ELSE Grp(hit, k - 1) + (IF hit[k] # hit[k - 1] THEN 1 ELSE 0)

InmetQualifies_Any(duration_d) == duration_d >= 1

\* the rule "duration_d >= 2"
InmetQualifies(duration_d) == duration_d >= 2

\* the groupby("run_id").agg(...) row of the rows idx of df
InmetAgg(df, idx) ==
  [start      |-> SetMin({df[k].timeset : k \in idx}),
   end        |-> SetMax({df[k].timeset : k \in idx}),
   duration_d |-> Cardinality({df[k].timeset : k \in idx}),
   peak_c     |-> SetMax({df[k].v : k \in idx})]

RECURSIVE InmetRuns(_, _, _)
\* one aggregated row per run id of ids (ascending), keeping the qualifying
InmetRuns(df, hit, ids) ==
  IF ids = {} THEN <<>>
  ELSE LET r   == SetMin(ids)
           idx == {k \in 1..Len(df) : hit[k] /\ Grp(hit, k) = r}
           row == InmetAgg(df, idx)
       IN (IF InmetQualifies(row.duration_d) THEN <<row>> ELSE <<>>)
          \o InmetRuns(df, hit, ids \ {r})

\* the returned flag column df[["timeset","hit"]] renamed HW_INMET_bool
InmetFlags(df, hit) ==
  [k \in 1..Len(df) |-> [timeset |-> df[k].timeset, flag |-> hit[k]]]

\* the working frame df with its added columns
InmetFrame(df, normals_m, delta) ==
  [k \in 1..Len(df) |->
     [timeset |-> df[k].timeset, v |-> df[k].v, month |-> MonthOf(df[k].timeset),
      thr_c |-> ThrC(df[k].timeset, normals_m, delta),
      hit |-> Hit(df[k], normals_m, delta)]]

detect_inmet_events(df, normals_m, site, delta) ==
  LET hit == [k \in 1..Len(df) |-> Hit(df[k], normals_m, delta)]
      ids == {Grp(hit, k) : k \in {x \in 1..Len(df) : hit[x]}}
      agg == InmetRuns(df, hit, ids)
      ev  == [k \in 1..Len(agg) |->
                [start |-> agg[k].start, end |-> agg[k].end,
                 duration_d |-> agg[k].duration_d, peak_c |-> agg[k].peak_c,
                 method |-> "INMET", site_id |-> site,
                 level |-> level_from_duration(agg[k].duration_d)]]
  IN [events |-> ev, flags |-> InmetFlags(df, hit), cands |-> <<>>,
      passed |-> AfterCall(df, InmetFrame(df, normals_m, delta))]

----------------------------------------------------------------------------
(* standardize_events and attach_event_id *)

\* the order of sort_values(["start","end","peak_c"], ascending=[True,True,False])
KeyLess(a, b) ==
  \/ a.start < b.start
  \/ a.start = b.start /\ a.end < b.end
  \/ a.start = b.start /\ a.end = b.end /\ a.peak_c > b.peak_c

RECURSIVE InsertSorted(_, _)
\* row placed after every row of the sorted table t that does not follow it
InsertSorted(t, row) ==
  IF t = <<>> THEN <<row>>
  ELSE IF KeyLess(row, Head(t)) THEN <<row>> \o t
  ELSE <<Head(t)>> \o InsertSorted(Tail(t), row)

RECURSIVE SortEvents(_)
\* the stable (mergesort) sort of the table
SortEvents(t) ==
  IF t = <<>> THEN <<>>
  ELSE InsertSorted(SortEvents(SubSeq(t, 1, Len(t) - 1)), t[Len(t)])

\* the row with the fixed fields of standardize_events set
StandardRow(row, site, m, version, add_level) ==
  LET fixed == [site_id |-> site, method |-> m, method_version |-> version,
                baseline_start |-> "NaT", baseline_end |-> "NaT",
                threshold_info |-> <<>>]
      lvl   == IF add_level THEN [level |-> level_from_duration(row.duration_d)]
               ELSE IF "level" \in DOMAIN row THEN [level |-> row.level]
               ELSE [level |-> ""]
  IN lvl @@ fixed @@ row

\* the working frame df before the sort
StandardFrame(t, site, m, version, add_level) ==
  [k \in 1..Len(t) |-> StandardRow(t[k], site, m, version, add_level)]

standardize_events(t, site, m, version, add_level) ==
  SortEvents(StandardFrame(t, site, m, version, add_level))

RECURSIVE Zeros(_)
Zeros(w) == IF w <= 0 THEN "" ELSE "0" \o Zeros(w - 1)

\* the format specification 0<w>d
ZeroPad(x, w) == Zeros(w - Len(ToString(x))) \o ToString(x)

\* df["start"].dt.strftime("%Y%m%d")
StartYmd(t) ==
  LET c == CivilFromDays(t)
  IN ZeroPad(c.year, 4) \o ZeroPad(c.month, 2) \o ZeroPad(c.day, 2)

SeqAno_Global(df, k) == k

\* df.groupby("year").cumcount() + 1 at row k
SeqAno(df, k) ==
  Cardinality({i \in 1..(k - 1) : YearOf(df[i].start) = YearOf(df[k].start)}) + 1

HwId_NoSeq(df, k, site, m) ==
  site \o "-" \o m \o "-" \o StartYmd(df[k].start)

\* df["hw_id"] at row k
HwId(df, k, site, m) ==
  site \o "-" \o m \o "-" \o StartYmd(df[k].start) \o "-" \o ZeroPad(SeqAno(df, k), 3)

attach_event_id(t, site, m) ==
  LET df == SortEvents(t)
  IN [k \in 1..Len(df) |-> [hw_id |-> HwId(df, k, site, m)] @@ df[k]]

----------------------------------------------------------------------------
(* compute_event_metrics *)

\* an Optional field of the Thresholds dataclass
None == [some |-> FALSE]
Some(x) == [some |-> TRUE, val |-> x]

\* float subtraction; NaN propagates
FSub(a, b) == IF a = NaN \/ b = NaN THEN NaN ELSE a - b

Clip0_None(x) == x

\* Series.clip(lower=0); a missing value stays missing
Clip0(x) == IF x = NaN THEN NaN ELSE IF x < 0 THEN 0 ELSE x

\* Series.fillna(0.0)
FillNa0(x) == IF x = NaN THEN 0 ELSE x

\* DataFrame.dropna() on the value column
DropNa(tbl) == SelectRows(tbl, {k \in 1..Len(tbl) : tbl[k].v # NaN})

\* frame.set_index("timeset").reindex(days)[col] at one day: the value of
\* the row of that day, missing when the frame has none
Reindex(tbl, day, col) ==
  LET K == {k \in 1..Len(tbl) : tbl[k].timeset = day}
  IN IF K = {} THEN NaN ELSE tbl[SetMin(K)][col]

\* pd.date_range(start.normalize(), end.normalize(), freq="D")
DateRange(start, end) == start..end

\* (end.normalize() - start.normalize()).dt.days + 1, when duration_d is absent
WithDuration(row) ==
  IF "duration_d" \in DOMAIN row THEN row
  ELSE [duration_d |-> (row.end - row.start) + 1] @@ row

Intensity_NoFallback(tmax, row) ==
  LET vals == {Reindex(tmax, day, "v") : day \in DateRange(row.start, row.end)}
  IN IF vals \ {NaN} # {} THEN SetMax(vals \ {NaN}) ELSE NaN

\* float(vals.max()) if vals.notna().any() else 0.0
Intensity(tmax, row) ==
  LET vals == {Reindex(tmax, day, "v") : day \in DateRange(row.start, row.end)}
  IN IF vals \ {NaN} # {} THEN SetMax(vals \ {NaN}) ELSE 0

\* _daily_excess_inmet: normals_m maps month to the normal (the recognised
\* normal column renamed "norm")
DailyExcessInmet(daily_tmax, normals_m, delta_c) ==
  LET dm == DropNa(daily_tmax)
  IN [k \in 1..Len(dm) |->
        [timeset   |-> dm[k].timeset,
         threshold |-> ThrC(dm[k].timeset, normals_m, delta_c),
         excess_c  |-> Clip0(FSub(dm[k].v, ThrC(dm[k].timeset, normals_m, delta_c))),
         v         |-> dm[k].v]]

\* _daily_excess_ouzeau
DailyExcessOuzeau(daily_tmean, sdeb_c) ==
  LET dm == DropNa(daily_tmean)
  IN [k \in 1..Len(dm) |->
        [timeset   |-> dm[k].timeset,
         threshold |-> sdeb_c,
         excess_c  |-> Clip0(FSub(dm[k].v, sdeb_c)),
         v         |-> dm[k].v]]

RECURSIVE SumExcess(_, _, _)
\* float(dex.reindex(days)["excess_c"].fillna(0.0).sum()) over day..end
SumExcess(dex, day, end) ==
  IF day > end THEN 0
  ELSE FillNa0(Reindex(dex, day, "excess_c")) + SumExcess(dex, day + 1, end)

\* the method tags compute_event_metrics has a branch for
MetricsKnows(m) == m \in {"INMET", "Ouzeau"}

\* the required parameter of the method is missing from the descriptor
MetricsMissing(thr) ==
  \/ thr.method = "INMET" /\ ~thr.normals_m.some
  \/ thr.method = "Ouzeau" /\ ~thr.sdeb_c.some

\* the daily excess table of the method
DailyExcess(daily_tmean, daily_tmax, thr) ==
  IF thr.method = "INMET"
    THEN DailyExcessInmet(daily_tmax, thr.normals_m.val, thr.delta_c)
    ELSE DailyExcessOuzeau(daily_tmean, thr.sdeb_c.val)

\* the per-event computations done when the threshold validation is reached:
\* the intensity loop has run over every event
WorkBeforeValidation(ev) == Len(ev)

compute_event_metrics(t, daily_tmean, daily_tmax, thr) ==
  LET ev1 == [k \in 1..Len(t) |-> WithDuration(t[k])]
      ev2 == [k \in 1..Len(t) |->
                [intensity_c |-> Intensity(daily_tmax, ev1[k])] @@ ev1[k]]
      w   == WorkBeforeValidation(ev2)
  IN IF MetricsKnows(thr.method) /\ MetricsMissing(thr)
       THEN [status |-> "error", error |-> "missing threshold parameter",
             table |-> <<>>, work |-> w, frame |-> ev2, dex |-> <<>>]
     ELSE IF ~MetricsKnows(thr.method)
       THEN [status |-> "error", error |-> "unknown method",
             table |-> <<>>, work |-> w, frame |-> ev2, dex |-> <<>>]
     ELSE LET dex == DailyExcess(daily_tmean, daily_tmax, thr)
              ev3 == [k \in 1..Len(t) |->
                        [severity_cday |-> SumExcess(dex, ev2[k].start, ev2[k].end)]
                        @@ ev2[k]]
          IN [status |-> "ok", error |-> "", table |-> ev3,
              work |-> w + Len(ev3), frame |-> ev3, dex |-> dex]

----------------------------------------------------------------------------
(* Timelines: timestamps of a timeline are hours since 1970-01-01 00:00 *)

HoursPerDay == 24

\* the timestamp of a calendar day at 00:00; the start and end of the events
\* of a daily series are such timestamps
Midnight(day) == day * HoursPerDay

\* Series.dt.normalize() of a timeline timestamp, as a calendar day
NormalizeDay(ts) == ts \div HoursPerDay

----------------------------------------------------------------------------
(* expand_event_metrics_to_timeseries *)

\* the missing value of an object column
NullObj == "null"

Lowercase == "abcdefghijklmnopqrstuvwxyz"
Uppercase == "ABCDEFGHIJKLMNOPQRSTUVWXYZ"

\* str.upper() on one character
UpperChar(c) ==
  LET I == {i \in 1..Len(Lowercase) : SubSeq(Lowercase, i, i) = c}
  IN IF I = {} THEN c ELSE SubSeq(Uppercase, SetMin(I), SetMin(I))

RECURSIVE Upper(_)
\* str.upper()
Upper(str) ==
  IF Len(str) = 0 THEN ""
  ELSE UpperChar(SubSeq(str, 1, 1)) \o Upper(SubSeq(str, 2, Len(str)))

\* the columns carried from an event to each of its days
MetricCols == {"hw_id", "duration_d", "intensity_c", "severity_cday", "method"}

\* mapper.add_prefix(f"{pref}_"): the prefixed name of each carried column
PrefixedNames(label) ==
  LET pref == Upper(label) IN [x \in MetricCols |-> pref \o "_" \o x]

RECURSIVE Mapper(_)
\* pd.concat(rows): per event, in table order, one row per day of
\* date_range(start, end), carrying the event's columns
Mapper(ev) ==
  IF ev = <<>> THEN <<>>
  ELSE LET r    == Head(ev)
           days == DateRange(r.start, r.end)
       IN SelectRows([d \in days |-> [date |-> d, ev |-> r]], days) \o Mapper(Tail(ev))

\* one row of the merged output: the timeline row, its date, and the
\* prefixed columns of a mapper row
MergedRow(ts, names, r) ==
  ("timeset" :> ts) @@ ("date" :> NormalizeDay(ts))
    @@ (names.hw_id :> r.hw_id) @@ (names.duration_d :> r.duration_d)
    @@ (names.intensity_c :> r.intensity_c)
    @@ (names.severity_cday :> r.severity_cday) @@ (names.method :> r.method)

\* variant: zeros in the numeric columns of a row without a match
NullCols_Zero == [hw_id |-> NullObj, duration_d |-> 0, intensity_c |-> 0,
                  severity_cday |-> 0, method |-> NullObj]

\* the prefixed columns of a timeline row without a match in the left merge
NullCols == [hw_id |-> NullObj, duration_d |-> NaN, intensity_c |-> NaN,
             severity_cday |-> NaN, method |-> NullObj]

RECURSIVE LeftMerge(_, _, _)
\* out.merge(m, on="date", how="left"): per timeline row, in order, one row
\* per mapper row of its date, in mapper order; a single row of missing
\* values when there is none
LeftMerge(tl, m, names) ==
  IF tl = <<>> THEN <<>>
  ELSE LET ts == Head(tl).timeset
           K  == {k \in 1..Len(m) : m[k].date = NormalizeDay(ts)}
           rs == IF K = {} THEN <<MergedRow(ts, names, NullCols)>>
                 ELSE SelectRows([k \in 1..Len(m) |-> MergedRow(ts, names, m[k].ev)], K)
       IN rs \o LeftMerge(Tail(tl), m, names)

expand_event_metrics_to_timeseries(ev, tl, label) ==
  LET names == PrefixedNames(label)
      m     == Mapper(ev)
  IN LeftMerge(tl, m, names)

----------------------------------------------------------------------------
(* flags_from_events *)

\* the mask (tl["timeset"] >= row["start"]) & (tl["timeset"] <= row["end"])
TimelineMask(ts, row) == ts >= Midnight(row.start) /\ ts <= Midnight(row.end)

\* variant: the events of every method
OfMethod_All(ev, m) == ev

\* events.query("method == @method")
OfMethod(ev, m) == SelectRows(ev, {k \in 1..Len(ev) : ev[k].method = m})

flags_from_events(ev, tl, m, col_name) ==
  LET evm == OfMethod(ev, m)
  IN [k \in 1..Len(tl) |->
        [c \in {"timeset", col_name} |->
           IF c = "timeset" THEN tl[k].timeset
           ELSE \E e \in 1..Len(evm) : TimelineMask(tl[k].timeset, evm[e])]]

----------------------------------------------------------------------------
(* Events tables handed directly to standardize_events / attach_event_id *)

TableStarts == {FirstDay, FirstDay + 1, FirstDay + 2}
TablePeaks == {220, 250}

TableRows ==
  { [start |-> st, end |-> st + len, duration_d |-> len + 1, peak_c |-> pk]
    : st \in TableStarts, len \in {0, 1}, pk \in TablePeaks }

Tables == UNION { [1..n -> TableRows] : n \in 0..MaxEvents }

----------------------------------------------------------------------------
(* Inputs of the metrics engine and of the projection *)

\* largest number of rows of an events table given to compute_event_metrics
MaxMetricEvents == 2
\* number of calendar days the daily series of the metrics engine span
MetricDays == 3
\* number of calendar days of a timeline
TimelineDays == 5

MetricRows ==
  { [start |-> st, end |-> st + len, duration_d |-> len + 1, peak_c |-> 250]
    : st \in TableStarts, len \in {0, 1} }

MetricMethods == {"INMET", "Ouzeau"}

\* standardized events tables with identifiers; events may overlap
MetricTables ==
  { attach_event_id(standardize_events(t, SiteId, m, "v1", FALSE), SiteId, m)
    : t \in UNION { [1..n -> MetricRows] : n \in 0..MaxMetricEvents },
      m \in MetricMethods }

\* daily maxima, a freezing day among them
MetricValues == {NaN, -50, 260}

\* every daily-maximum series over MetricDays calendar days, any of the days
\* possibly absent
MetricSeries ==
  UNION { { SelectRows([k \in 1..MetricDays |->
                          [timeset |-> FirstDay + k - 1,
                           v |-> IF k \in P THEN f[k] ELSE NaN]], P)
            : f \in [P -> MetricValues] }
          : P \in SUBSET (1..MetricDays) }

\* the daily means that go with a series of daily maxima: two degrees lower
MeanOf(tmax) ==
  [k \in 1..Len(tmax) |->
     [timeset |-> tmax[k].timeset, v |-> FSub(tmax[k].v, 20)]]

FullNormals == [m \in {12, 1} |-> IF m = 12 THEN 150 ELSE 170]

\* Thresholds descriptors: complete ones for the three methods, ones lacking
\* the required parameter, normals without January, and an unknown tag
ThresholdDescriptors ==
  { [method |-> "INMET", normals_m |-> Some(FullNormals), delta_c |-> Delta, sdeb_c |-> None],
    [method |-> "INMET", normals_m |-> Some([m \in {12} |-> 150]), delta_c |-> Delta, sdeb_c |-> None],
    [method |-> "INMET", normals_m |-> None, delta_c |-> Delta, sdeb_c |-> None],
    [method |-> "Ouzeau", normals_m |-> None, delta_c |-> Delta, sdeb_c |-> Some(200)],
    [method |-> "Ouzeau", normals_m |-> None, delta_c |-> Delta, sdeb_c |-> None],
    [method |-> "TW_P90", normals_m |-> None, delta_c |-> Delta, sdeb_c |-> Some(200)],
    [method |-> "UTCI", normals_m |-> None, delta_c |-> Delta, sdeb_c |-> Some(200)] }

\* the hours of a day at which a timeline has a timestamp
DailyHours == {0}
SubDailyHours == {0, 12}

\* a timeline over TimelineDays days from FirstDay with the given hours
Timeline(hours) ==
  LET T == {Midnight(FirstDay + k) + h : k \in 0..(TimelineDays - 1), h \in hours}
  IN SelectRows([t \in T |-> [timeset |-> t]], T)

Timelines == {Timeline(DailyHours), Timeline(SubDailyHours)}

\* the method_label the caller gives for a method
LabelOf(m) == IF m = "INMET" THEN "inmet" ELSE "OUZ"

----------------------------------------------------------------------------
(* State machine *)

Init ==
  /\ pc = "daily"
  /\ daily \in EnumSeries \cup LongSeries
  /\ method = ""
  /\ params = NoParams
  /\ events = <<>>
  /\ flags = <<>>
  /\ cands = <<>>
  /\ inputs = NoInputs
  /\ arg = NoArg
  /\ proj = <<>>
  /\ work = 0

InitId ==
  /\ pc = "table"
  /\ daily = <<>>
  /\ method = "Ouzeau"
  /\ params = NoParams
  /\ events \in Tables
  /\ flags = <<>>
  /\ cands = <<>>
  /\ inputs = NoInputs
  /\ arg = NoArg
  /\ proj = <<>>
  /\ work = 0

DetectInmet ==
  /\ pc = "daily"
  /\ \E nm \in NormalsSets :
       LET r == detect_inmet_events(daily, nm, SiteId, Delta)
       IN /\ events' = r.events
          /\ flags' = r.flags
          /\ cands' = r.cands
          /\ arg' = [daily |-> r.passed]
          /\ params' = [kind |-> "INMET", normals_m |-> nm, delta |-> Delta]
  /\ method' = "INMET"
  /\ pc' = "detected"
  /\ UNCHANGED <<daily, inputs, proj, work>>

DetectOuzeau ==
  /\ pc = "daily"
  /\ \E thr \in OuzeauThresholdSets, n \in 1..MaxN :
       LET r == detect_ouzeau_events(daily, thr, SiteId, n)
       IN /\ events' = r.events
          /\ flags' = r.flags
          /\ cands' = r.cands
          /\ arg' = [daily |-> r.passed]
          /\ params' = [kind |-> "Ouzeau", thr |-> thr, n |-> n]
  /\ method' = "Ouzeau"
  /\ pc' = "detected"
  /\ UNCHANGED <<daily, inputs, proj, work>>

DetectWetbulb ==
  /\ pc = "daily"
  /\ \E tw_p90 \in WetbulbThresholds, n \in 1..MaxN :
       LET r == detect_wetbulb_p90_events(daily, tw_p90, SiteId, n)
       IN /\ events' = r.events
          /\ flags' = r.flags
          /\ cands' = r.cands
          /\ arg' = [daily |-> r.passed]
          /\ params' = [kind |-> "TW_P90", tw_p90 |-> tw_p90, n |-> n]
  /\ method' = "TW_P90"
  /\ pc' = "detected"
  /\ UNCHANGED <<daily, inputs, proj, work>>

\* pd.DataFrame([]) of the scanning detectors has no columns at all
MissingColumns == pc = "detected" /\ method \in {"Ouzeau", "TW_P90"} /\ events = <<>>

StandardizeEvents ==
  /\ pc \in {"detected", "table"}
  /\ IF MissingColumns
       THEN /\ pc' = "error"
            /\ arg' = [events |-> events]
            /\ UNCHANGED events
       ELSE /\ \E add_level \in BOOLEAN :
                 /\ events' = standardize_events(events, SiteId, method, "v1", add_level)
                 /\ arg' = [events |-> AfterCall(events,
                               StandardFrame(events, SiteId, method, "v1", add_level))]
            /\ pc' = "standardized"
  /\ UNCHANGED <<daily, method, params, flags, cands, inputs, proj, work>>

AttachEventId ==
  /\ pc \in {"standardized", "table"}
  /\ events' = attach_event_id(events, SiteId, method)
  /\ arg' = [events |-> AfterCall(events, attach_event_id(events, SiteId, method))]
  /\ pc' = "identified"
  /\ UNCHANGED <<daily, method, params, flags, cands, inputs, proj, work>>

InitMetrics ==
  /\ pc = "catalogue"
  /\ daily = <<>>
  /\ method \in MetricMethods
  /\ params = NoParams
  /\ events \in {t \in MetricTables : \A k \in 1..Len(t) : t[k].method = method}
  /\ flags = <<>>
  /\ cands = <<>>
  /\ inputs = NoInputs
  /\ arg = NoArg
  /\ proj = <<>>
  /\ work = 0

ComputeMetrics ==
  /\ pc = "catalogue"
  /\ \E tmax \in MetricSeries, thr \in ThresholdDescriptors :
       LET tmean == MeanOf(tmax)
           r     == compute_event_metrics(events, tmean, tmax, thr)
       IN /\ inputs' = [kind |-> "metrics", tmean |-> tmean, tmax |-> tmax, thr |-> thr]
          /\ pc' = IF r.status = "ok" THEN "metrics" ELSE "metrics_error"
          /\ events' = IF r.status = "ok" THEN r.table ELSE events
          /\ work' = r.work
          /\ arg' = [events      |-> AfterCall(events, r.frame),
                     daily_tmean |-> AfterCall(tmean, IF thr.method = "Ouzeau" THEN r.dex ELSE tmean),
                     daily_tmax  |-> AfterCall(tmax, IF thr.method = "INMET" THEN r.dex ELSE tmax)]
  /\ UNCHANGED <<daily, method, params, flags, cands, proj>>

ExpandMetrics ==
  /\ pc = "metrics"
  /\ \E tl \in Timelines :
       LET outp == expand_event_metrics_to_timeseries(events, tl, LabelOf(method))
       IN /\ proj' = outp
          /\ inputs' = [timeline |-> tl, label |-> LabelOf(method)] @@ inputs
          /\ arg' = [events |-> AfterCall(events, events), timeline |-> AfterCall(tl, outp)]
  /\ pc' = "expanded"
  /\ UNCHANGED <<daily, method, params, events, flags, cands, work>>

FlagsFromEvents ==
  /\ pc = "catalogue"
  /\ \E tl \in Timelines, m \in MetricMethods :
       LET outp == flags_from_events(events, tl, m, "HW_bool")
       IN /\ proj' = outp
          /\ inputs' = [kind |-> "flags", timeline |-> tl, method |-> m, col_name |-> "HW_bool"]
          /\ arg' = [events |-> AfterCall(events, OfMethod(events, m)),
                     timeline |-> AfterCall(tl, outp)]
  /\ pc' = "flagged"
  /\ UNCHANGED <<daily, method, params, events, flags, cands, work>>

Next == DetectInmet \/ DetectOuzeau \/ DetectWetbulb \/ StandardizeEvents \/ AttachEventId

NextId == StandardizeEvents \/ AttachEventId

Spec == Init /\ [][Next]_vars

SpecId == InitId /\ [][NextId]_vars

NextMetrics == ComputeMetrics \/ ExpandMetrics \/ FlagsFromEvents

SpecMetrics == InitMetrics /\ [][NextMetrics]_vars

\* every operation of the pipeline, from every kind of input
InitAll == Init \/ InitId \/ InitMetrics

NextAll == Next \/ NextId \/ NextMetrics

SpecAll == InitAll /\ [][NextAll]_vars

----------------------------------------------------------------------------
(* Properties *)

\* the events table holds the events of a detector run on daily
Detected == pc \in {"detected", "standardized", "identified", "error"}

\* the rows of daily whose date lies in [start, end]
RowsIn(start, end) == {k \in 1..Len(daily) : daily[k].timeset >= start /\ daily[k].timeset <= end}

\* an end condition of Method B holds at row k of a candidate opened at row s:
\* a hard stop, or the n-th consecutive day below sdeb
EndCondition(thr, n, s, k) ==
  \/ Lt(daily[k].v, thr.sint)
  \/ /\ k - n >= s
     /\ \A m \in (k - n + 1)..k : Lt(daily[m].v, thr.sdeb)
     /\ (k - n = s \/ ~Lt(daily[k - n].v, thr.sdeb))

\* the row at which a candidate opened at row s must end
FirstEnd(thr, n, s) ==
  LET E == {k \in (s + 1)..Len(daily) : EndCondition(thr, n, s, k)}
  IN IF E = {} THEN Len(daily) ELSE SetMin(E)

\* C1: every Method B candidate opens on a day above sdeb and ends on the
\* first later day at which an end condition holds (hard stop below sint, or
\* the n_consecutive-th consecutive day below sdeb), or on the last day of
\* the series when there is none; every emitted event is such a candidate
C1_FirstEndDay ==
  (Detected /\ method = "Ouzeau") =>
    /\ \A c \in 1..Len(cands) :
         /\ Gt(daily[cands[c].s].v, params.thr.sdeb)
         /\ cands[c].end = daily[FirstEnd(params.thr, params.n, cands[c].s)].timeset
    /\ \A e \in 1..Len(events) : \E c \in 1..Len(cands) :
         /\ events[e].start = daily[cands[c].s].timeset
         /\ events[e].end = cands[c].end

\* a candidate ended through the counter (no hard stop) before the last day,
\* with n_consecutive > 1, and was emitted
C1_Witness ==
  /\ pc = "detected" /\ method = "Ouzeau" /\ params.n >= 2
  /\ \E c \in 1..Len(cands) :
       /\ cands[c].j < Len(daily)
       /\ ~Lt(daily[cands[c].j].v, params.thr.sint)
       /\ \E e \in 1..Len(events) : events[e].end = cands[c].end

\* the threshold of Method A on day t: the month's normal plus the offset
DayThreshold(t) ==
  IF MonthOf(t) \in DOMAIN params.normals_m
    THEN params.normals_m[MonthOf(t)] + params.delta ELSE NaN

IsHit(k) == Ge(daily[k].v, DayThreshold(daily[k].timeset))

\* C2: Method A events last >= 2 days, Method C events >= n_consecutive days,
\* every input day within [start, end] is at or above its threshold, and an
\* isolated above-threshold day belongs to no Method A event
C2_DurationAndThreshold ==
  /\ (Detected /\ method = "INMET") =>
       /\ \A e \in 1..Len(events) :
            /\ events[e].duration_d >= 2
            /\ \A k \in RowsIn(events[e].start, events[e].end) : IsHit(k)
       /\ \A k \in 1..Len(daily) :
            ( /\ IsHit(k)
              /\ (k = 1 \/ ~IsHit(k - 1))
              /\ (k = Len(daily) \/ ~IsHit(k + 1)) )
            => \A e \in 1..Len(events) : k \notin RowsIn(events[e].start, events[e].end)
  /\ (Detected /\ method = "TW_P90") =>
       \A e \in 1..Len(events) :
         /\ events[e].duration_d >= params.n
         /\ \A k \in RowsIn(events[e].start, events[e].end) :
              Ge(daily[k].v, params.tw_p90)

\* Method A emitted an event while another above-threshold day is isolated
C2_Witness ==
  /\ pc = "detected" /\ method = "INMET" /\ Len(events) >= 1
  /\ \E k \in 1..Len(daily) :
       /\ IsHit(k)
       /\ (k = 1 \/ ~IsHit(k - 1))
       /\ (k = Len(daily) \/ ~IsHit(k + 1))

\* C3: every event of a detector, and every standardized row, has
\* duration_d = (end - start) in days + 1
C3_DurationIsSpan ==
  pc \in {"detected", "standardized"} =>
    \A e \in 1..Len(events) : events[e].duration_d = (events[e].end - events[e].start) + 1

\* C4: the flag series of Method A is True only on days covered by an event
C4_InmetFlagsOnlyEvents ==
  (Detected /\ method = "INMET") =>
    \A k \in 1..Len(flags) :
      flags[k].flag =>
        \E e \in 1..Len(events) :
          events[e].start <= flags[k].timeset /\ flags[k].timeset <= events[e].end

\* the documented scenario was run with the default n_consecutive
ScenarioRun ==
  /\ Detected /\ method = "Ouzeau" /\ daily = ScenarioSeries
  /\ params.thr = ScenarioThresholds /\ params.n = 3

\* C5: the scenario yields exactly one event, from day 3 (value 25) to day 7
\* (value 16, the first below 16.5), with peak 27; day 9 (value 24) yields
\* no event and is not flagged
C5_Scenario ==
  ScenarioRun =>
    /\ Len(events) = 1
    /\ events[1].start = ScenarioSeries[3].timeset
    /\ events[1].end = ScenarioSeries[7].timeset
    /\ events[1].duration_d = 5
    /\ events[1].peak_c = 270
    /\ ~flags[9].flag

C5_Witness == ScenarioRun /\ pc = "detected" /\ Len(events) = 1

\* the maximum value over the days of daily within [start, end] that have data
SpanMax(start, end) == SetMax({daily[k].v : k \in {x \in RowsIn(start, end) : daily[x].v # NaN}})

\* C6: every Method B event has peak_c >= spic, peak_c being the maximum
\* over [start, end]; no event lies in the span of a candidate whose maximum
\* is below spic
C6_PeakQualifies ==
  (Detected /\ method = "Ouzeau") =>
    /\ \A e \in 1..Len(events) :
         /\ events[e].peak_c = SpanMax(events[e].start, events[e].end)
         /\ events[e].peak_c >= params.thr.spic
    /\ \A c \in 1..Len(cands) :
         SpanMax(daily[cands[c].s].timeset, cands[c].end) < params.thr.spic
         => \A e \in 1..Len(events) :
              \/ events[e].end < daily[cands[c].s].timeset
              \/ events[e].start > cands[c].end

\* Method B discarded one candidate and emitted another
C6_Witness ==
  /\ pc = "detected" /\ method = "Ouzeau" /\ Len(events) >= 1
  /\ \E c \in 1..Len(cands) :
       SpanMax(daily[cands[c].s].timeset, cands[c].end) < params.thr.spic

\* C7: the events of a detector are chronologically ordered and pairwise
\* disjoint, and so are the candidates of Method B, qualified or not
C7_NonOverlapping ==
  Detected =>
    /\ \A e \in 1..(Len(events) - 1) : events[e].end < events[e + 1].start
    /\ \A e \in 1..Len(events) : events[e].start <= events[e].end
    /\ method = "Ouzeau" =>
         \A c \in 1..(Len(cands) - 1) : cands[c].end < daily[cands[c + 1].s].timeset

\* Method B emitted two events after a discarded candidate
C7_Witness ==
  /\ pc = "detected" /\ method = "Ouzeau" /\ Len(events) >= 2
  /\ Len(cands) > Len(events)

\* a candidate or run of the scanning detectors that was emitted as an event
Emitted(c) == \E e \in 1..Len(events) : events[e].start = daily[cands[c].s].timeset

\* C8: the flag series of Methods B and C has one entry per input day, True
\* exactly on the days within [start, end] of an emitted event; the days of
\* a discarded candidate or run are False
C8_FlagsIffEvent ==
  (Detected /\ method \in {"Ouzeau", "TW_P90"}) =>
    /\ Len(flags) = Len(daily)
    /\ \A k \in 1..Len(flags) :
         /\ flags[k].timeset = daily[k].timeset
         /\ flags[k].flag <=>
              \E e \in 1..Len(events) : k \in RowsIn(events[e].start, events[e].end)
    /\ \A c \in 1..Len(cands) :
         ~Emitted(c) => \A k \in cands[c].s..cands[c].j : ~flags[k].flag

\* Method C flagged an event and left the day of a short run unflagged
C8_Witness ==
  /\ pc = "detected" /\ method = "TW_P90" /\ Len(events) >= 1
  /\ \E c \in 1..Len(cands) : ~Emitted(c)
  /\ \E k \in 1..Len(flags) : flags[k].flag

\* the value of a decimal digit character, and of a string of digits
DigitVal(c) == CHOOSE x \in 0..9 : ToString(x) = c

RECURSIVE ParseNat(_)
ParseNat(str) ==
  IF Len(str) = 0 THEN 0
  ELSE 10 * ParseNat(SubSeq(str, 1, Len(str) - 1)) + DigitVal(SubSeq(str, Len(str), Len(str)))

\* the parts of an identifier {site}-{method}-{YYYYMMDD}-{seq}
IdPrefix == SiteId \o "-" \o method \o "-"
IdYmd(id) == ParseNat(SubSeq(id, Len(IdPrefix) + 1, Len(IdPrefix) + 8))
IdSeq(id) == ParseNat(SubSeq(id, Len(IdPrefix) + 10, Len(id)))

\* the identifier of row has the documented form and carries the row's start
\* date and a three-digit sequence number
IdWellFormed(row) ==
  /\ Len(row.hw_id) = Len(IdPrefix) + 12
  /\ SubSeq(row.hw_id, 1, Len(IdPrefix)) = IdPrefix
  /\ SubSeq(row.hw_id, Len(IdPrefix) + 9, Len(IdPrefix) + 9) = "-"
  /\ LET ymd == IdYmd(row.hw_id)
     IN /\ (ymd \div 100) % 100 \in 1..12
        /\ ymd % 100 \in 1..31
        /\ DaysFromCivil(ymd \div 10000, (ymd \div 100) % 100, ymd % 100) = row.start

\* a comes before b in the order (start ascending, end ascending, peak descending)
RankBefore(a, b) ==
  \/ a.start < b.start
  \/ a.start = b.start /\ a.end < b.end
  \/ a.start = b.start /\ a.end = b.end /\ a.peak_c > b.peak_c

\* the start year read off the identifier
IdYear(row) == IdYmd(row.hw_id) \div 10000

\* in the table t every identifier is well formed and its sequence number is
\* the 1-based rank of the row among the rows of its start year
IdsRanked(t) ==
  \A k \in 1..Len(t) :
    /\ IdWellFormed(t[k])
    /\ LET year     == {i \in 1..Len(t) : IdYear(t[i]) = IdYear(t[k])}
           before   == {i \in year : RankBefore(t[i], t[k])}
           notafter == {i \in year : ~RankBefore(t[k], t[i])}
       IN /\ IdSeq(t[k].hw_id) \in (Cardinality(before) + 1)..Cardinality(notafter)
          /\ \A i \in year \ {k} : IdSeq(t[i].hw_id) # IdSeq(t[k].hw_id)

\* the row without its identifier
WithoutId(row) == [f \in DOMAIN row \ {"hw_id"} |-> row[f]]

\* the table out holds the rows of the table in, each once more with an id
SameRows(in, out) ==
  /\ Len(in) = Len(out)
  /\ \A k \in 1..Len(in) :
       Cardinality({i \in 1..Len(in) : in[i] = in[k]})
         = Cardinality({i \in 1..Len(out) : WithoutId(out[i]) = in[k]})

\* C9: attach_event_id gives every row of the input table, whatever the row
\* order, the identifier {site}-{method}-{YYYYMMDD of start}-{seq}, seq
\* being the three-digit 1-based rank among the rows of the same start year
\* in the order (start ascending, end ascending, peak descending)
C9_IdIsYearRank ==
  [][(pc # "identified" /\ pc' = "identified") =>
       (SameRows(events, events') /\ IdsRanked(events'))]_vars

\* a table with two events starting in 2020 (one before the other) and one
\* in 2021 got the identifiers 001, 002 and 001
C9_Witness ==
  /\ pc = "identified" /\ Len(events) = 3
  /\ \E a, b, c \in 1..3 :
       /\ YearOf(events[a].start) = 2020 /\ YearOf(events[b].start) = 2020
       /\ events[a].start < events[b].start
       /\ YearOf(events[c].start) = 2021
       /\ IdSeq(events[a].hw_id) = 1 /\ IdSeq(events[b].hw_id) = 2
       /\ IdSeq(events[c].hw_id) = 1

\* C10: the identifiers assigned by attach_event_id are pairwise distinct
C10_IdsDistinct ==
  pc = "identified" =>
    \A i, k \in 1..Len(events) : i # k => events[i].hw_id # events[k].hw_id

\* two events sharing their start date got identifiers
C10_Witness ==
  /\ pc = "identified"
  /\ \E i, k \in 1..Len(events) : i # k /\ events[i].start = events[k].start

----------------------------------------------------------------------------
(* Properties of compute_event_metrics *)

\* compute_event_metrics has returned, with a table or with an error
MetricsReturned == pc \in {"metrics", "metrics_error"}

\* the closed set of method tags of the pipeline
ClosedSet == {"INMET", "Ouzeau", "TW_P90"}

\* the descriptor carries the parameter its method requires: the normals for
\* the fixed-offset method, the scalar for the other two
RequiredSupplied(thr) ==
  IF thr.method = "INMET" THEN thr.normals_m.some ELSE thr.sdeb_c.some

\* C11: with a method tag of the closed set {INMET, Ouzeau, TW_P90} and the
\* parameter of that method supplied, compute_event_metrics returns the
\* table with the metrics; only a tag outside the set fails
C11_ClosedSetComputed ==
  (MetricsReturned /\ inputs.thr.method \in ClosedSet /\ RequiredSupplied(inputs.thr))
    => pc = "metrics"

\* the daily values with data on the days of [start, end]
SpanData(series, row) ==
  { series[k].v : k \in { i \in 1..Len(series) :
                            /\ series[i].timeset \in row.start..row.end
                            /\ series[i].v # NaN } }

\* C12 as stated: intensity_c is >= 0 for every event and every series
C12_IntensityNonNegative ==
  pc = "metrics" => \A k \in 1..Len(events) : events[k].intensity_c >= 0

\* C12: intensity_c is the maximum daily maximum over the days of
\* [start, end] that have data, and 0 when no day of the span has data; it
\* is >= 0 whenever the span has no data or a day with a maximum >= 0
C12_IntensityIsMaxOrZero ==
  pc = "metrics" =>
    \A k \in 1..Len(events) :
       LET V == SpanData(inputs.tmax, events[k])
           x == events[k].intensity_c
       IN /\ V = {} => x = 0
          /\ V # {} => (x \in V /\ \A v \in V : v <= x)
          /\ (V = {} \/ \E v \in V : v >= 0) => x >= 0

\* one event has only freezing days and a negative intensity, another has
\* no day with data and intensity 0
C12_Witness ==
  /\ pc = "metrics"
  /\ \E k, j \in 1..Len(events) :
       /\ SpanData(inputs.tmax, events[k]) # {} /\ events[k].intensity_c < 0
       /\ SpanData(inputs.tmax, events[j]) = {} /\ events[j].intensity_c = 0

\* the value of the method's daily series on a day, NaN when the day has no
\* row: the daily maximum for INMET, the daily mean for Ouzeau
ValueOn(day) ==
  LET series == IF inputs.thr.method = "INMET" THEN inputs.tmax ELSE inputs.tmean
      K      == {k \in 1..Len(series) : series[k].timeset = day}
  IN IF K = {} THEN NaN ELSE series[CHOOSE k \in K : TRUE].v

\* the threshold of a day, NaN when there is none: month normal + offset
\* for INMET, the scalar for Ouzeau
ThresholdOn(day) ==
  IF inputs.thr.method = "INMET"
    THEN IF MonthOf(day) \in DOMAIN inputs.thr.normals_m.val
           THEN inputs.thr.normals_m.val[MonthOf(day)] + inputs.thr.delta_c
           ELSE NaN
    ELSE inputs.thr.sdeb_c.val

\* max(value - threshold, 0) of a day, 0 without a value or a threshold
ExcessOn(day) ==
  IF ValueOn(day) = NaN \/ ThresholdOn(day) = NaN THEN 0
  ELSE IF ValueOn(day) > ThresholdOn(day) THEN ValueOn(day) - ThresholdOn(day)
  ELSE 0

RECURSIVE ExcessSum(_, _)
ExcessSum(day, end) ==
  IF day > end THEN 0 ELSE ExcessOn(day) + ExcessSum(day + 1, end)

\* no row of the method's daily series lies in [start, end]
OutsideData(row) == \A day \in row.start..row.end : ValueOn(day) = NaN

\* C13: severity_cday is the sum over every calendar day of [start, end] of
\* max(value - threshold, 0), a day without row, value or threshold
\* contributing 0; it is >= 0, and 0 for an event outside the data
C13_SeverityIsExcessSum ==
  pc = "metrics" =>
    \A k \in 1..Len(events) :
       /\ events[k].severity_cday = ExcessSum(events[k].start, events[k].end)
       /\ events[k].severity_cday >= 0
       /\ OutsideData(events[k]) => events[k].severity_cday = 0

\* a two-day event has one day above its threshold and one day below it
\* (clipped to 0), and another event lies outside the data
C13_Witness ==
  /\ pc = "metrics"
  /\ \E k, j \in 1..Len(events) :
       /\ events[k].end = events[k].start + 1
       /\ events[k].severity_cday > 0
       /\ \E day \in events[k].start..events[k].end :
            ValueOn(day) # NaN /\ ThresholdOn(day) # NaN /\ ValueOn(day) < ThresholdOn(day)
       /\ OutsideData(events[j]) /\ events[j].severity_cday = 0

\* C14: when the descriptor lacks the parameter its method requires,
\* compute_event_metrics fails before any per-event computation and returns
\* no table
C14_FailsBeforeWork ==
  (MetricsReturned /\ MetricsKnows(inputs.thr.method) /\ ~RequiredSupplied(inputs.thr))
    => (pc = "metrics_error" /\ work = 0)

----------------------------------------------------------------------------
(* Properties of the projection onto a timeline *)

\* the events whose [start, end] covers the calendar day of a timestamp
Covering(ts) ==
  {k \in 1..Len(events) :
     events[k].start <= NormalizeDay(ts) /\ NormalizeDay(ts) <= events[k].end}

\* the rows of the projection for a timestamp
ProjRows(ts) == {k \in 1..Len(proj) : proj[k]["timeset"] = ts}

\* the timestamps of the timeline given to the last projection
TimelineStamps == {inputs.timeline[k].timeset : k \in 1..Len(inputs.timeline)}

\* the prefix the caller's label gives the projected columns
ColumnPrefix == IF method = "INMET" THEN "INMET_" ELSE "OUZ_"

\* the projected columns of an output row
Projected(row) ==
  [hw_id         |-> row[ColumnPrefix \o "hw_id"],
   duration_d    |-> row[ColumnPrefix \o "duration_d"],
   intensity_c   |-> row[ColumnPrefix \o "intensity_c"],
   severity_cday |-> row[ColumnPrefix \o "severity_cday"],
   method        |-> row[ColumnPrefix \o "method"]]

\* the metrics an event projects
Metrics(e) ==
  [hw_id |-> e.hw_id, duration_d |-> e.duration_d, intensity_c |-> e.intensity_c,
   severity_cday |-> e.severity_cday, method |-> e.method]

AllNull(m) ==
  /\ m.hw_id = NullObj /\ m.method = NullObj
  /\ m.duration_d = NaN /\ m.intensity_c = NaN /\ m.severity_cday = NaN

\* C15: in the output of expand_event_metrics_to_timeseries a timestamp
\* whose calendar day no event covers has null (never 0) in all prefixed
\* columns, and a timestamp whose day exactly one event covers carries
\* exactly that event's hw_id, duration_d, intensity_c, severity_cday, method
C15_ProjectionNullOrEvent ==
  pc = "expanded" =>
    \A ts \in TimelineStamps :
       /\ Covering(ts) = {} =>
            (ProjRows(ts) # {} /\ \A k \in ProjRows(ts) : AllNull(Projected(proj[k])))
       /\ Cardinality(Covering(ts)) = 1 =>
            (ProjRows(ts) # {} /\
             \A k \in ProjRows(ts) : \A e \in Covering(ts) :
                Projected(proj[k]) = Metrics(events[e]))

\* an event of severity 0 is the only one covering a timestamp, whose row
\* carries severity 0, while the row of an uncovered timestamp carries null
C15_Witness ==
  /\ pc = "expanded"
  /\ \E k, j \in 1..Len(proj) :
       /\ Cardinality(Covering(proj[k]["timeset"])) = 1
       /\ Projected(proj[k]).severity_cday = 0
       /\ Covering(proj[j]["timeset"]) = {}
       /\ Projected(proj[j]).severity_cday = NaN

----------------------------------------------------------------------------
(* Properties of flags_from_events *)

\* the calendar day of a timestamp lies in [start, end] of an event of the
\* method given to flags_from_events
DayInEvent(ts) ==
  \E k \in 1..Len(events) :
     /\ events[k].method = inputs.method
     /\ events[k].start <= NormalizeDay(ts) /\ NormalizeDay(ts) <= events[k].end

\* the output has the timestamps of the timeline, in order
SameTimeline ==
  /\ Len(proj) = Len(inputs.timeline)
  /\ \A k \in 1..Len(proj) : proj[k]["timeset"] = inputs.timeline[k].timeset

\* one timestamp per calendar day, at 00:00
IsDaily(tl) == \A k \in 1..Len(tl) : tl[k].timeset = Midnight(NormalizeDay(tl[k].timeset))

\* C16: on a daily timeline flags_from_events sets the column True on a day
\* iff the day lies in [start, end] of at least one event of the given
\* method
C16_DailyFlagsAreUnion ==
  (pc = "flagged" /\ IsDaily(inputs.timeline)) =>
    /\ SameTimeline
    /\ \A k \in 1..Len(proj) : proj[k]["HW_bool"] = DayInEvent(proj[k]["timeset"])

\* a daily timeline got flagged and unflagged days from events of the method
C16_Witness ==
  /\ pc = "flagged" /\ IsDaily(inputs.timeline) /\ inputs.method = method
  /\ \E k, j \in 1..Len(proj) : proj[k]["HW_bool"] /\ ~proj[j]["HW_bool"]

\* C17: on a sub-daily timeline flags_from_events marks a timestamp True iff
\* its calendar day lies in [start, end] of at least one event of the
\* method, whatever its time of day
C17_FlagsIgnoreTimeOfDay ==
  pc = "flagged" =>
    \A k \in 1..Len(proj) : proj[k]["HW_bool"] = DayInEvent(proj[k]["timeset"])

----------------------------------------------------------------------------
(* Frame: the tables passed to an operation *)

----------------------------------------------------------------------------
(* Properties of runs and dips *)

\* C19: in Methods A and C a gap in the calendar breaks a run: every
\* calendar day of [start, end] of an event is a row of the input, so two
\* rows that are not adjacent calendar days never belong to the same event
C19_RunsBreakAtGaps ==
  (Detected /\ method \in {"INMET", "TW_P90"}) =>
    \A e \in 1..Len(events) :
       \A day \in events[e].start..events[e].end :
          \E k \in 1..Len(daily) : daily[k].timeset = day

\* the number of consecutive rows below sdeb ending at row k, counted from
\* the row after s
BelowRun(thr, s, k) ==
  LET B == {m \in (s + 1)..k : \A i \in m..k : Lt(daily[i].v, thr.sdeb)}
  IN Cardinality(B)

\* the candidate ended at row k
EndedAt(c, k) == cands[c].ended /\ cands[c].j = k

\* C20 as stated, with sdeb < sint < spic: a day below sdeb does not end
\* the event while fewer than n_consecutive consecutive days are below sdeb
C20_DipIgnoredAscending ==
  (Detected /\ method = "Ouzeau" /\ params.n > 1
     /\ params.thr.sdeb < params.thr.sint /\ params.thr.sint < params.thr.spic) =>
    \A c \in 1..Len(cands) : \A k \in (cands[c].s + 1)..cands[c].j :
       (Lt(daily[k].v, params.thr.sdeb) /\ BelowRun(params.thr, cands[c].s, k) < params.n)
         => ~EndedAt(c, k)

\* C20: with sint < sdeb < spic, a day below sdeb that is not below sint
\* does not end the event while fewer than n_consecutive consecutive days
\* are below sdeb, and the counter ends the event only on the
\* n_consecutive-th such day
C20_DipIgnored ==
  (Detected /\ method = "Ouzeau" /\ params.n > 1
     /\ params.thr.sint < params.thr.sdeb /\ params.thr.sdeb < params.thr.spic) =>
    \A c \in 1..Len(cands) : \A k \in (cands[c].s + 1)..cands[c].j :
       /\ (/\ Lt(daily[k].v, params.thr.sdeb) /\ ~Lt(daily[k].v, params.thr.sint)
           /\ BelowRun(params.thr, cands[c].s, k) < params.n)
            => ~EndedAt(c, k)
       /\ (EndedAt(c, k) /\ ~Lt(daily[k].v, params.thr.sint))
            => BelowRun(params.thr, cands[c].s, k) = params.n

\* a candidate went through a dip of one day, rose above sdeb again, and
\* ended through the counter on the second consecutive day below sdeb
C20_Witness ==
  /\ pc = "detected" /\ method = "Ouzeau" /\ params.n = 2
  /\ params.thr.sint < params.thr.sdeb /\ params.thr.sdeb < params.thr.spic
  /\ \E c \in 1..Len(cands) : \E k, m \in (cands[c].s + 1)..cands[c].j :
       /\ k < m /\ m < cands[c].j
       /\ Lt(daily[k].v, params.thr.sdeb) /\ ~Lt(daily[k].v, params.thr.sint)
       /\ Gt(daily[m].v, params.thr.sdeb)
       /\ EndedAt(c, cands[c].j)
       /\ ~Lt(daily[cands[c].j].v, params.thr.sint)
       /\ BelowRun(params.thr, cands[c].s, cands[c].j) = 2

----------------------------------------------------------------------------
(* Properties of the projection of overlapping events *)

\* C21: when two events of the same method cover the same calendar day,
\* expand_event_metrics_to_timeseries still outputs each timestamp of the
\* timeline exactly once (as many rows as the timeline has), and a
\* timestamp of such a day carries the values of the later event row
C21_LaterEventWins ==
  pc = "expanded" =>
    /\ Len(proj) = Len(inputs.timeline)
    /\ \A ts \in TimelineStamps :
         Cardinality(Covering(ts)) >= 2 =>
           /\ Cardinality(ProjRows(ts)) = 1
           /\ \A k \in ProjRows(ts) :
                Projected(proj[k]) = Metrics(events[SetMax(Covering(ts))])

====
